---- MODULE Spec2Model ----
(***************************************************************************)
(* A model of the refraction simulation engine: the sampled Field, the     *)
(* ChargedParticle oscillator and the Simulation that drives them          *)
(* (src/src/app/simulation.rs, src/src/app/simulation/*.rs).               *)
(*                                                                         *)
(* Numbers.  The program computes in f32.  The model computes in fixed     *)
(* point: the integer n stands for the real n / Scale, products and        *)
(* quotients are rounded to the nearest representable value, and the       *)
(* value NaN stands for the result of a division by zero and of every      *)
(* operation on such a result.                                             *)
(***************************************************************************)
EXTENDS Integers, Sequences, FiniteSets

(***************************************************************************)
(* Bounds of the model.                                                    *)
(***************************************************************************)
\* samples of a field (variables.rs:11 sets 1001; the grid is coarsened)
DIVISIONS == 5
\* Simulation::update() is taken while fewer than MaxTicks ticks have elapsed
MaxTicks == 2
\* a ChargedParticle on its own is updated at most MaxSteps times
MaxSteps == 4
\* the caller writes particle_count from 0..MaxCount
MaxCount == 3

(***************************************************************************)
(* f32 arithmetic in fixed point.                                          *)
(***************************************************************************)
Scale == 600
NaN == -2147483647
One == Scale

Abs(n) == IF n < 0 THEN -n ELSE n
Sgn(n) == IF n < 0 THEN -1 ELSE IF n > 0 THEN 1 ELSE 0
IsNaN(a) == a = NaN
\* an integer of the program as an f32 (`i as f32`)
AsF32(i) == i * Scale
\* n / d rounded to the nearest integer, halves away from zero (d > 0)
RoundDiv(n, d) == Sgn(n) * ((Abs(n) + d \div 2) \div d)

FAdd(a, b) == IF IsNaN(a) \/ IsNaN(b) THEN NaN ELSE a + b
FSub(a, b) == IF IsNaN(a) \/ IsNaN(b) THEN NaN ELSE a - b
FNeg(a) == IF IsNaN(a) THEN NaN ELSE -a
FMul(a, b) == IF IsNaN(a) \/ IsNaN(b) THEN NaN ELSE RoundDiv(a * b, Scale)
\* a / b; x / 0.0 is an infinity or a NaN in f32, both modelled as NaN
FDiv(a, b) ==
    IF IsNaN(a) \/ IsNaN(b) \/ b = 0 THEN NaN
    ELSE Sgn(b) * RoundDiv(a * Scale, Abs(b))
FAbs(a) == IF IsNaN(a) THEN NaN ELSE Abs(a)
\* f32::max(a, b): a NaN operand is ignored
FMax(a, b) == IF IsNaN(a) THEN b ELSE IF IsNaN(b) THEN a ELSE IF a < b THEN b ELSE a
\* a < b: every comparison with a NaN is false
FLt(a, b) == ~IsNaN(a) /\ ~IsNaN(b) /\ a < b
\* f32::floor and f32::ceil
FFloor(a) == IF IsNaN(a) THEN NaN ELSE a - (a % Scale)
FCeil(a) == IF IsNaN(a) THEN NaN ELSE IF a % Scale = 0 THEN a ELSE a - (a % Scale) + Scale
\* `f as usize`: a saturating cast, negative values and NaN become 0
AsUsize(a) == IF IsNaN(a) \/ a < 0 THEN 0 ELSE a \div Scale

(***************************************************************************)
(* variables.rs.  PARTICLE_SPACING is the Variable that variables.rs names *)
(* ELECTRON_SPACING; INV_C_2 is 1 / C^2.                                   *)
(***************************************************************************)
MONITOR_REFRESH_RATE == 60
SIMULATION_FPS == IF MONITOR_REFRESH_RATE < 60 THEN MONITOR_REFRESH_RATE ELSE 60
TIME_STEP == FDiv(One, AsF32(SIMULATION_FPS))
C == One
INV_C_2 == FDiv(One, FMul(C, C))
WORLD_SIZE == [min |-> AsF32(-20), max |-> AsF32(4)]
SPRING_CONSTANT == [initial |-> Scale \div 2, min |-> 0, max |-> Scale]
ELECTRON_MASS == [initial |-> Scale \div 2, min |-> Scale \div 10, max |-> Scale]
ELECTRON_DAMPING == [initial |-> 0, min |-> 0, max |-> Scale]
PARTICLE_SPACING == [initial |-> AsF32(3), min |-> AsF32(1), max |-> AsF32(8)]

(***************************************************************************)
(* field.rs: a Field is the sequence of its DIVISIONS sample values; the   *)
(* sample the program indexes by i is element i + 1 of the sequence.       *)
(* field.rs is written for a domain [-W, W] (STEP = 2W / (DIVISIONS - 1),  *)
(* index (x + W) / STEP); simulation.rs and variables.rs give the domain   *)
(* as the range WORLD_SIZE, so the lower end W becomes WORLD_SIZE.min and  *)
(* the width 2W becomes the span of the range.                             *)
(***************************************************************************)
\* Field::size(): the span of the domain
FieldSize == FSub(WORLD_SIZE.max, WORLD_SIZE.min)
STEP == FDiv(FieldSize, AsF32(DIVISIONS - 1))
\* x_points: Array::linspace(min, max, DIVISIONS)
position_at(i) == FAdd(WORLD_SIZE.min, FMul(STEP, AsF32(i)))
\* Field::new: all samples zero
Field_new == [k \in 1 .. DIVISIONS |-> 0]

index_of_flt(x) == FDiv(FSub(x, WORLD_SIZE.min), STEP)

\* the closure get_value of value_at: values.get(i as usize).unwrap_or(&0.0)
get_value(values, i) ==
    IF AsUsize(i) < Len(values) THEN values[AsUsize(i) + 1] ELSE 0

\* the sample nearest to x, no interpolation
value_at_Nearest(values, x) ==
    LET idx == index_of_flt(x)
        lower_idx == FFloor(idx)
    IN  get_value(values, IF 2 * (idx - lower_idx) >= One THEN FCeil(idx) ELSE lower_idx)

value_at(values, x) ==
    LET idx == index_of_flt(x)
        lower_idx == FFloor(idx)
        upper_idx == FCeil(idx)
        lower == get_value(values, lower_idx)
        upper == get_value(values, upper_idx)
    IN  FAdd(FMul(lower, FAdd(FSub(One, idx), lower_idx)),
             FMul(upper, FSub(idx, lower_idx)))

\* the samples are overwritten, not summed
add_Assign(lhs, rhs) == [k \in 1 .. DIVISIONS |-> rhs[k]]

\* SimpleField::add: elementwise sum in place
add(lhs, rhs) == [k \in 1 .. DIVISIONS |-> FAdd(lhs[k], rhs[k])]

(***************************************************************************)
(* f32::sqrt, f32::exp and f32::sin.  sqrt is the integer square root of   *)
(* the fixed-point value; exp(a) for a <= 0 is the reciprocal of the       *)
(* fourth-order series of exp(-a) and underflows to 0 below ExpUnderflow;  *)
(* sin is Bhaskara's rational approximation after reduction to [0, 2 pi).  *)
(***************************************************************************)
RECURSIVE SqrtSearch(_, _, _)
SqrtSearch(n, lo, hi) ==
    IF lo >= hi THEN lo
    ELSE LET mid == (lo + hi + 1) \div 2
         IN  IF mid * mid <= n THEN SqrtSearch(n, mid, hi)
             ELSE SqrtSearch(n, lo, mid - 1)
FSqrt(a) ==
    IF IsNaN(a) \/ a < 0 THEN NaN
    ELSE SqrtSearch(a * Scale, 0, IF a * Scale < 46340 THEN a * Scale ELSE 46340)

ExpUnderflow == AsF32(-8)
ExpSeries(z) ==
    LET z2 == FMul(z, z)
        z3 == FMul(z2, z)
        z4 == FMul(z3, z)
    IN  One + z + RoundDiv(z2, 2) + RoundDiv(z3, 6) + RoundDiv(z4, 24)
FExp(a) ==
    IF IsNaN(a) THEN NaN
    ELSE IF a <= ExpUnderflow THEN 0
    ELSE IF a <= 0 THEN FDiv(One, ExpSeries(-a))
    ELSE ExpSeries(a)

PI == RoundDiv(355 * Scale, 113)
SinHalf(r) ==
    LET p == FMul(r, PI - r)
    IN  FDiv(16 * p, 5 * FMul(PI, PI) - 4 * p)
FSin(a) ==
    IF IsNaN(a) THEN NaN
    ELSE LET r == a % (2 * PI)
         IN  IF r <= PI THEN SinHalf(r) ELSE -SinHalf(r - PI)

(***************************************************************************)
(* waveform.rs                                                             *)
(***************************************************************************)
Waveform == {"Gaussian", "GaussianPacket", "PlaneWave"}

gaussian_wave(x, time) ==
    LET xp == FSub(FAdd(x, FMul(C, time)), WORLD_SIZE.max)
    IN  FExp(FMul(FMul(AsF32(-4), xp), xp))
gaussian_packet_wave(x, time) ==
    LET xp == FSub(FAdd(x, FMul(C, time)), WORLD_SIZE.max)
    IN  FMul(FExp(FMul(FNeg(xp), xp)), FSin(FMul(AsF32(5), xp)))
plane_wave(x, time) ==
    LET xp == FSub(FAdd(x, FMul(C, time)), WORLD_SIZE.max)
    IN  FSin(FMul(One, xp))

\* Waveform::properties().function applied to (x, t)
WaveformFunction(w, x, time) ==
    CASE w = "Gaussian" -> gaussian_wave(x, time)
      [] w = "GaussianPacket" -> gaussian_packet_wave(x, time)
      [] w = "PlaneWave" -> plane_wave(x, time)

\* the function is sampled at the time after the tick's advance
set_from_function_NextTick(w, time) ==
    [k \in 1 .. DIVISIONS |->
        WaveformFunction(w, position_at(k - 1), FAdd(time, TIME_STEP))]

\* SimpleField::set_from_function
set_from_function(w, time) ==
    [k \in 1 .. DIVISIONS |-> WaveformFunction(w, position_at(k - 1), time)]

(***************************************************************************)
(* particle.rs                                                             *)
(***************************************************************************)
ChargedParticleType == {"Electron", "Proton"}

retrieve_properties(ptype) ==
    IF ptype = "Electron"
    THEN [mass |-> ELECTRON_MASS.initial, charge |-> -One,
          default_spring_constant |-> SPRING_CONSTANT.initial,
          default_damping |-> ELECTRON_DAMPING.initial]
    ELSE [mass |-> AsF32(1836), charge |-> One,
          default_spring_constant |-> AsF32(2),
          default_damping |-> RoundDiv(8 * Scale, 10)]

(***************************************************************************)
(* simulation.rs: ChargedParticle.  position is split into x (fixed) and   *)
(* y (the displacement).                                                   *)
(***************************************************************************)
ChargedParticle_new(x, y, ptype) ==
    [particle_type |-> ptype,
     mass |-> retrieve_properties(ptype).mass,
     spring_constant |-> retrieve_properties(ptype).default_spring_constant,
     damping |-> retrieve_properties(ptype).default_damping,
     x |-> x,
     y |-> y,
     velocity |-> 0,
     acceleration |-> 0,
     field |-> Field_new,
     history |-> << >>]

snapshot(p, time) ==
    [t |-> time, y |-> p.y, v |-> p.velocity, a |-> p.acceleration]

\* explicit Euler: the displacement advances by the velocity before the step
update_position_ExplicitEuler(p, applied_field_strength, time) ==
    LET charge == retrieve_properties(p.particle_type).charge
        force == FSub(FSub(FMul(charge, applied_field_strength),
                           FMul(p.spring_constant, p.y)),
                      FMul(p.damping, p.velocity))
        acc == FDiv(force, p.mass)
        vel == FAdd(p.velocity, FMul(TIME_STEP, acc))
        yy == FAdd(p.y, FMul(TIME_STEP, p.velocity))
        moved == [p EXCEPT !.acceleration = acc, !.velocity = vel, !.y = yy]
    IN  [moved EXCEPT !.history = Append(p.history, snapshot(moved, time))]

\* the history keeps the latest snapshot only
update_position_KeepsLatestOnly(p, applied_field_strength, time) ==
    LET charge == retrieve_properties(p.particle_type).charge
        force == FSub(FSub(FMul(charge, applied_field_strength),
                           FMul(p.spring_constant, p.y)),
                      FMul(p.damping, p.velocity))
        acc == FDiv(force, p.mass)
        vel == FAdd(p.velocity, FMul(TIME_STEP, acc))
        yy == FAdd(p.y, FMul(TIME_STEP, vel))
        moved == [p EXCEPT !.acceleration = acc, !.velocity = vel, !.y = yy]
    IN  [moved EXCEPT !.history = <<snapshot(moved, time)>>]

update_position(p, applied_field_strength, time) ==
    LET charge == retrieve_properties(p.particle_type).charge
        force == FSub(FSub(FMul(charge, applied_field_strength),
                           FMul(p.spring_constant, p.y)),
                      FMul(p.damping, p.velocity))
        acc == FDiv(force, p.mass)
        vel == FAdd(p.velocity, FMul(TIME_STEP, acc))
        yy == FAdd(p.y, FMul(TIME_STEP, vel))
        moved == [p EXCEPT !.acceleration = acc, !.velocity = vel, !.y = yy]
    IN  [moved EXCEPT !.history = Append(p.history, snapshot(moved, time))]

\* Vec::get(i).unwrap_or(&now), i counted from 0
history_get(p, i, now) ==
    IF i < Len(p.history) THEN p.history[i + 1] ELSE now

\* the retarded time at which the point (x, 0) sees the particle
retarded_past_t(p, x, time) ==
    LET distance == FAbs(FSub(x, p.x))
    IN  FMax(FSub(time, FDiv(distance, C)), 0)

\* the index of that time in the history, as estimated from its length
retarded_index(p, x, time) ==
    AsUsize(FFloor(FDiv(FMul(AsF32(Len(p.history)), retarded_past_t(p, x, time)), time)))

\* the lookup interpolates whatever the length of the history
retarded_rva_NoBootstrap(p, x, time) ==
    LET now == snapshot(p, time)
        past_t == retarded_past_t(p, x, time)
        i == retarded_index(p, x, time)
        t1 == history_get(p, i, now)
        t2 == history_get(p, i + 1, now)
        f == FDiv(FSub(past_t, t1.t), FSub(t2.t, t1.t))
    IN  [t |-> past_t,
         y |-> FAdd(FMul(t1.y, FSub(One, f)), FMul(t2.y, f)),
         v |-> FAdd(FMul(t1.v, FSub(One, f)), FMul(t2.v, f)),
         a |-> FAdd(FMul(t1.a, FSub(One, f)), FMul(t2.a, f))]

retarded_rva(p, x, time) ==
    LET now == snapshot(p, time)
        past_t == retarded_past_t(p, x, time)
        i == retarded_index(p, x, time)
        t1 == history_get(p, i, now)
        t2 == history_get(p, i + 1, now)
        f == FDiv(FSub(past_t, t1.t), FSub(t2.t, t1.t))
    IN  IF Len(p.history) < 2 THEN now
        ELSE [t |-> past_t,
              y |-> FAdd(FMul(t1.y, FSub(One, f)), FMul(t2.y, f)),
              v |-> FAdd(FMul(t1.v, FSub(One, f)), FMul(t2.v, f)),
              a |-> FAdd(FMul(t1.a, FSub(One, f)), FMul(t2.a, f))]

\* the near-field guard is left out
induced_field_at_NoGuard(p, i, time) ==
    LET charge == retrieve_properties(p.particle_type).charge
        x == position_at(i)
        e_rva == retarded_rva(p, x, time)
        rx == FSub(p.x, x)
        mod_r == FSqrt(FAdd(FMul(rx, rx), FMul(e_rva.y, e_rva.y)))
        cos_theta == FDiv(FAbs(rx), mod_r)
        a_perp == FMul(e_rva.a, cos_theta)
    IN  FMul(INV_C_2, FDiv(FMul(charge, a_perp), mod_r))

\* one sample of the induced field (the body of the loop over 0..DIVISIONS)
induced_field_at(p, i, time) ==
    LET charge == retrieve_properties(p.particle_type).charge
        x == position_at(i)
        e_rva == retarded_rva(p, x, time)
        rx == FSub(p.x, x)
        mod_r == FSqrt(FAdd(FMul(rx, rx), FMul(e_rva.y, e_rva.y)))
        cos_theta == FDiv(FAbs(rx), mod_r)
        a_perp == FMul(e_rva.a, cos_theta)
    IN  IF FLt(FAbs(rx), FDiv(FieldSize, AsF32(DIVISIONS - 1))) THEN 0
        ELSE FMul(INV_C_2, FDiv(FMul(charge, a_perp), mod_r))

update_induced_field(p, time) ==
    [p EXCEPT !.field = [k \in 1 .. DIVISIONS |-> induced_field_at(p, k - 1, time)]]

\* ChargedParticle::update
particle_update(p, applied_field_strength, time) ==
    update_induced_field(update_position(p, applied_field_strength, time), time)

(***************************************************************************)
(* simulation.rs: Simulation.  The state of the program.                   *)
(***************************************************************************)
VARIABLES
    t,                \* Simulation.t
    waveform,         \* Simulation.waveform
    applied_field,    \* Simulation.applied_field
    resultant_field,  \* Simulation.resultant_field
    particles,        \* Simulation.particles
    particle_count,   \* Simulation.particle_count
    particle_spacing, \* Simulation.particle_spacing
    particle_type,    \* Simulation.particle_type
    spring_constant,  \* Simulation.spring_constant
    particle_mass,    \* Simulation.particle_mass
    damping,          \* Simulation.damping
    panicked,         \* a call has panicked: the process is gone
    last_call,        \* the call made last: its arguments, t as the call
                      \* found it, for the calls that rebuild the
                      \* collection particles.len() as the call found it,
                      \* the number of update() calls since new() or
                      \* reset(), and what update() returned
    e_y,              \* the values update() read into its local e_y, per particle
    probe             \* a Field under test, the position queried and the answer

vars == <<t, waveform, applied_field, resultant_field, particles, particle_count,
          particle_spacing, particle_type, spring_constant, particle_mass,
          damping, panicked, last_call, e_y, probe>>

sim_vars == <<t, waveform, applied_field, resultant_field, particles, particle_count,
              particle_spacing, particle_type, spring_constant, particle_mass,
              damping, panicked, last_call, e_y>>

\* the spacings the caller writes to particle_spacing between ticks
Spacings == {PARTICLE_SPACING.initial, PARTICLE_SPACING.max}

NoProbe == [values |-> << >>, x |-> 0, out |-> 0, done |-> FALSE]

\* Simulation::new(waveform), and particle_spacing as the caller wrote it since
SimulationWith(w, spacing) ==
    /\ t = 0
    /\ waveform = w
    /\ particle_count = 1
    /\ particle_type = "Electron"
    /\ damping = retrieve_properties("Electron").default_damping
    /\ spring_constant = retrieve_properties("Electron").default_spring_constant
    /\ particle_mass = retrieve_properties("Electron").mass
    /\ particle_spacing = spacing
    /\ applied_field = Field_new
    /\ resultant_field = Field_new
    /\ particles = <<ChargedParticle_new(0, 0, "Electron")>>
    /\ panicked = FALSE
    /\ last_call = [op |-> "new", update_all |-> FALSE, prior_len |-> 0, prior_t |-> 0,
                    ticks |-> 0]
    /\ e_y = << >>

\* Simulation::new(waveform)
SimulationNew(w) == SimulationWith(w, PARTICLE_SPACING.initial)

Init ==
    /\ \E w \in Waveform : SimulationNew(w)
    /\ probe = NoProbe

\* the particles laid out to the right of the origin
RECURSIVE reset_particles_Mirrored(_, _, _)
reset_particles_Mirrored(n, spacing, ptype) ==
    IF n = 0 THEN << >>
    ELSE Append(reset_particles_Mirrored(n - 1, spacing, ptype),
                ChargedParticle_new(FMul(AsF32(n - 1), spacing), 0, ptype))

\* the particles reset() pushes: particle i at (-(i as f32) * spacing, 0)
RECURSIVE reset_particles(_, _, _)
reset_particles(n, spacing, ptype) ==
    IF n = 0 THEN << >>
    ELSE Append(reset_particles(n - 1, spacing, ptype),
                ChargedParticle_new(FMul(FNeg(AsF32(n - 1)), spacing), 0, ptype))

\* Simulation::reset, called after the caller wrote count and spacing
Reset(count, spacing) ==
    /\ ~panicked
    /\ particle_count' = count
    /\ particle_spacing' = spacing
    /\ t' = 0
    /\ applied_field' = Field_new
    /\ resultant_field' = Field_new
    /\ particles' = reset_particles(count, spacing, particle_type)
    /\ last_call' = [op |-> "reset", update_all |-> FALSE,
                     prior_len |-> Len(particles), prior_t |-> t, ticks |-> 0]
    /\ e_y' = << >>
    /\ UNCHANGED <<waveform, particle_type, spring_constant, particle_mass,
                   damping, panicked, probe>>

\* Vec::resize_with(new_len, f) where f counts i up from `from` before each use
RECURSIVE resize_with(_, _, _, _, _)
resize_with(ps, new_len, from, spacing, ptype) ==
    IF new_len <= Len(ps) THEN SubSeq(ps, 1, new_len)
    ELSE resize_with(
             Append(ps, ChargedParticle_new(FMul(FNeg(AsF32(from + 1)), spacing), 0, ptype)),
             new_len, from + 1, spacing, ptype)

\* update_all ignored: nothing is erased
truncate_to_origin_KeepsAll(ps, ptype) ==
    IF Len(ps) = 0 THEN <<ChargedParticle_new(0, 0, ptype)>> ELSE ps

\* the first statement of update_particles: keep only the origin particle
truncate_to_origin(ps, ptype) ==
    IF Len(ps) = 0 THEN <<ChargedParticle_new(0, 0, ptype)>> ELSE SubSeq(ps, 1, 1)

\* Simulation::update_particles, called after the caller wrote count and spacing.
\* `particles.len() - 1` on an empty collection overflows usize: a build with
\* overflow checks panics there, a build without wraps to usize::MAX and the
\* closure's `i += 1` wraps back to 0.
UpdateParticles(count, spacing, update_all) ==
    /\ ~panicked
    /\ particle_count' = count
    /\ particle_spacing' = spacing
    /\ last_call' = [op |-> "update_particles", update_all |-> update_all,
                     prior_len |-> IF update_all THEN Len(particles) ELSE 0,
                     prior_t |-> t, ticks |-> last_call.ticks]
    /\ e_y' = << >>
    /\ LET kept == IF update_all THEN truncate_to_origin(particles, particle_type)
                   ELSE particles
       IN  IF count = Len(kept)
           THEN particles' = kept /\ panicked' = FALSE
           ELSE IF Len(kept) = 0
           THEN \/ particles' = kept /\ panicked' = TRUE
                \/ /\ particles' = resize_with(kept, count, -1, spacing, particle_type)
                   /\ panicked' = FALSE
           ELSE /\ particles' = resize_with(kept, count, Len(kept) - 1, spacing,
                                            particle_type)
                /\ panicked' = FALSE
    /\ UNCHANGED <<t, waveform, applied_field, resultant_field, particle_type,
                   spring_constant, particle_mass, damping, probe>>

\* the mass, spring constant and damping each particle holds
held_parameters(ps) ==
    [i \in 1 .. Len(ps) |-> [mass |-> ps[i].mass,
                              spring_constant |-> ps[i].spring_constant,
                              damping |-> ps[i].damping]]

\* the particles step with the mass, spring constant and damping they hold
RECURSIVE update_loop_KeepsOwn(_, _)
update_loop_KeepsOwn(st, i) ==
    IF i > Len(st.particles) THEN st
    ELSE LET strength == value_at(st.resultant_field, st.particles[i].x)
             q == particle_update(st.particles[i], strength, t)
         IN  update_loop_KeepsOwn(
                 [particles |-> [st.particles EXCEPT ![i] = q],
                  resultant_field |-> add(st.resultant_field, q.field),
                  e_y |-> Append(st.e_y, strength)],
                 i + 1)

\* every particle reads the field as seeded from the waveform
RECURSIVE update_loop_ReadsSeed(_, _)
update_loop_ReadsSeed(st, i) ==
    IF i > Len(st.particles) THEN st
    ELSE LET strength == value_at(set_from_function(waveform, t), st.particles[i].x)
             p == [st.particles[i] EXCEPT !.mass = particle_mass,
                                          !.spring_constant = spring_constant,
                                          !.damping = damping]
             q == particle_update(p, strength, t)
         IN  update_loop_ReadsSeed(
                 [particles |-> [st.particles EXCEPT ![i] = q],
                  resultant_field |-> add(st.resultant_field, q.field),
                  e_y |-> Append(st.e_y, strength)],
                 i + 1)

\* the loop of update() from particle i on (i counted from 1): the state is
\* the particles, the resultant field and the values of e_y read so far
RECURSIVE update_loop(_, _)
update_loop(st, i) ==
    IF i > Len(st.particles) THEN st
    ELSE LET strength == value_at(st.resultant_field, st.particles[i].x)
             p == [st.particles[i] EXCEPT !.mass = particle_mass,
                                          !.spring_constant = spring_constant,
                                          !.damping = damping]
             q == particle_update(p, strength, t)
         IN  update_loop([particles |-> [st.particles EXCEPT ![i] = q],
                          resultant_field |-> add(st.resultant_field, q.field),
                          e_y |-> Append(st.e_y, strength)],
                         i + 1)

\* the clock advances inside the loop, once per particle
Update_ClockInLoop ==
    /\ ~panicked
    /\ t < MaxTicks * TIME_STEP
    /\ LET done == update_loop([particles |-> particles,
                                resultant_field |-> set_from_function(waveform, t),
                                e_y |-> << >>], 1)
       IN  /\ applied_field' = set_from_function(waveform, t)
           /\ particles' = done.particles
           /\ resultant_field' = done.resultant_field
           /\ e_y' = done.e_y
    /\ t' = FAdd(t, Len(particles) * TIME_STEP)
    /\ last_call' = [op |-> "update", update_all |-> FALSE, prior_len |-> 0, prior_t |-> t,
                     ticks |-> last_call.ticks + 1, returned |-> FALSE,
                     held |-> held_parameters(particles)]
    /\ UNCHANGED <<waveform, particle_count, particle_spacing, particle_type,
                   spring_constant, particle_mass, damping, panicked, probe>>

\* Simulation::update
Update ==
    /\ ~panicked
    /\ t < MaxTicks * TIME_STEP
    /\ LET done == update_loop([particles |-> particles,
                                resultant_field |-> set_from_function(waveform, t),
                                e_y |-> << >>], 1)
       IN  /\ applied_field' = set_from_function(waveform, t)
           /\ particles' = done.particles
           /\ resultant_field' = done.resultant_field
           /\ e_y' = done.e_y
    /\ t' = FAdd(t, TIME_STEP)
    /\ last_call' = [op |-> "update", update_all |-> FALSE, prior_len |-> 0, prior_t |-> t,
                     ticks |-> last_call.ticks + 1, returned |-> FALSE,
                     held |-> held_parameters(particles)]
    /\ UNCHANGED <<waveform, particle_count, particle_spacing, particle_type,
                   spring_constant, particle_mass, damping, panicked, probe>>

\* u32::MAX, which `+inf as u32` saturates to (4294967295 in the program; the
\* largest integer TLC represents stands for it)
U32_MAX == 2147483647
\* Simulation::max_particles
max_particles ==
    IF particle_spacing = 0 THEN U32_MAX
    ELSE AsUsize(FFloor(FDiv(FAbs(WORLD_SIZE.min), particle_spacing)))

\* the type and its defaults are set, the collection is left as it is
SetParticleType_KeepsParticles(ptype) ==
    /\ ~panicked
    /\ particle_type' = ptype
    /\ particle_mass' = retrieve_properties(ptype).mass
    /\ spring_constant' = retrieve_properties(ptype).default_spring_constant
    /\ damping' = retrieve_properties(ptype).default_damping
    /\ t' = 0
    /\ applied_field' = Field_new
    /\ resultant_field' = Field_new
    /\ last_call' = [op |-> "set_particle_type", update_all |-> FALSE,
                     prior_len |-> Len(particles), prior_t |-> t, ticks |-> 0,
                     ptype |-> ptype]
    /\ e_y' = << >>
    /\ UNCHANGED <<waveform, particles, particle_count, particle_spacing, panicked, probe>>

\* Simulation::set_particle_type, reset() included
SetParticleType(ptype) ==
    /\ ~panicked
    /\ particle_type' = ptype
    /\ particle_mass' = retrieve_properties(ptype).mass
    /\ spring_constant' = retrieve_properties(ptype).default_spring_constant
    /\ damping' = retrieve_properties(ptype).default_damping
    /\ t' = 0
    /\ applied_field' = Field_new
    /\ resultant_field' = Field_new
    /\ particles' = reset_particles(particle_count, particle_spacing, ptype)
    /\ last_call' = [op |-> "set_particle_type", update_all |-> FALSE,
                     prior_len |-> Len(particles), prior_t |-> t, ticks |-> 0,
                     ptype |-> ptype]
    /\ e_y' = << >>
    /\ UNCHANGED <<waveform, particle_count, particle_spacing, panicked, probe>>

\* the caller writes the pub field waveform
SetWaveform(w) ==
    /\ ~panicked
    /\ waveform' = w
    /\ last_call' = [last_call EXCEPT !.op = "write"]
    /\ UNCHANGED <<t, applied_field, resultant_field, particles, particle_count,
                   particle_spacing, particle_type, spring_constant, particle_mass,
                   damping, panicked, e_y, probe>>

\* the caller writes the pub fields particle_mass, spring_constant and damping
SetParameters(s) ==
    /\ ~panicked
    /\ particle_mass' = s.mass
    /\ spring_constant' = s.spring_constant
    /\ damping' = s.damping
    /\ last_call' = [last_call EXCEPT !.op = "write"]
    /\ UNCHANGED <<t, waveform, applied_field, resultant_field, particles,
                   particle_count, particle_spacing, particle_type, panicked, e_y,
                   probe>>

Next ==
    \/ Update
    \/ \E c \in 0 .. MaxCount, s \in Spacings : Reset(c, s)
    \/ \E c \in 0 .. MaxCount, s \in Spacings, b \in BOOLEAN : UpdateParticles(c, s, b)

Spec == Init /\ [][Next]_vars

(***************************************************************************)
(* Field::value_at as a function of its inputs: a field of any sample      *)
(* values is queried once at a position on, between or beyond the samples. *)
(***************************************************************************)
SampleValues == {0, One, AsF32(2)}
\* half a grid step
HalfStep == RoundDiv(STEP, 2)
ProbePositions ==
    {WORLD_SIZE.min + k * HalfStep : k \in -4 .. (2 * (DIVISIONS - 1) + 4)}

InitField ==
    /\ SimulationNew("GaussianPacket")
    /\ \E v \in [1 .. DIVISIONS -> SampleValues], x \in ProbePositions :
           probe = [values |-> v, x |-> x, out |-> 0, done |-> FALSE]

ProbeValueAt ==
    /\ ~probe.done
    /\ probe' = [probe EXCEPT !.out = value_at(probe.values, probe.x), !.done = TRUE]
    /\ UNCHANGED sim_vars

NextField == ProbeValueAt

SpecField == InitField /\ [][NextField]_vars

(***************************************************************************)
(* Simulation::max_particles as a function of particle_spacing: the caller *)
(* has written a spacing, zero included, and asks once.                    *)
(***************************************************************************)
\* the spacings 0, 0.25, 0.5, ... up to past the domain's half-width
ProbeSpacings == {k * (Scale \div 4) : k \in 0 .. 100}

InitSpacing ==
    /\ \E s \in ProbeSpacings : SimulationWith("GaussianPacket", s)
    /\ probe = NoProbe

ProbeMaxParticles ==
    /\ ~probe.done
    /\ probe' = [probe EXCEPT !.out = max_particles, !.done = TRUE]
    /\ UNCHANGED sim_vars

NextSpacing == ProbeMaxParticles

SpecSpacing == InitSpacing /\ [][NextSpacing]_vars

(***************************************************************************)
(* SimpleField::add as a function of its inputs: a.add(&b) for two fields  *)
(* of any sample values.                                                   *)
(***************************************************************************)
AddendValues == {-One, One + 1}

InitAdd ==
    /\ SimulationNew("GaussianPacket")
    /\ \E a \in [1 .. DIVISIONS -> SampleValues], b \in [1 .. DIVISIONS -> AddendValues] :
           probe = [a |-> a, b |-> b, a0 |-> a, b0 |-> b, done |-> FALSE]

\* a.add(&b): a is borrowed mutably, b immutably
ProbeAdd ==
    /\ ~probe.done
    /\ probe' = [probe EXCEPT !.a = add(probe.a, probe.b), !.done = TRUE]
    /\ UNCHANGED sim_vars

NextAdd == ProbeAdd

SpecAdd == InitAdd /\ [][NextAdd]_vars

(***************************************************************************)
(* One ChargedParticle on its own, as the Simulation drives it: created at *)
(* the origin at some time of the simulation (at t = 0 by new() or         *)
(* reset(), later by update_particles), then updated once per tick with    *)
(* the mass, spring constant and damping of the Simulation copied in and a *)
(* field strength read from the resultant field.  After an update the      *)
(* retarded lookup may be queried for a position x, as                     *)
(* update_induced_field queries it for the sample positions.               *)
(***************************************************************************)
\* the values of particle_mass, spring_constant and damping of the Simulation
ParticleSettings ==
    {[mass |-> ELECTRON_MASS.initial, spring_constant |-> 0, damping |-> 0],
     [mass |-> ELECTRON_MASS.initial, spring_constant |-> SPRING_CONSTANT.initial,
      damping |-> ELECTRON_DAMPING.initial],
     [mass |-> ELECTRON_MASS.max, spring_constant |-> SPRING_CONSTANT.max,
      damping |-> ELECTRON_DAMPING.max]}
\* Simulation.t when the particle is created: 0, or 1000 ticks later
StartTimes == {0, 1000 * TIME_STEP}
\* the values of e_y
FieldStrengths == {0, One, -One}
\* distances from the particle to the queried position: 0, dt/2, dt, ...
ProbeDistances == {k * (TIME_STEP \div 2) : k \in 0 .. 8}

InitParticle ==
    /\ SimulationNew("GaussianPacket")
    /\ \E ty \in ChargedParticleType, s \in ParticleSettings, t0 \in StartTimes :
           probe = [p |-> ChargedParticle_new(0, 0, ty), settings |-> s,
                    time |-> t0, steps |-> 0, strength |-> 0, driven |-> FALSE,
                    x |-> 0, out |-> snapshot(ChargedParticle_new(0, 0, ty), t0),
                    done |-> FALSE]

\* the body of the loop of Simulation::update for this particle, then
\* `self.t += TIME_STEP`
ParticleStep(strength) ==
    /\ ~probe.done
    /\ probe.steps < MaxSteps
    /\ LET p == [probe.p EXCEPT !.mass = probe.settings.mass,
                                !.spring_constant = probe.settings.spring_constant,
                                !.damping = probe.settings.damping]
       IN  probe' = [probe EXCEPT !.p = particle_update(p, strength, probe.time),
                                  !.time = FAdd(probe.time, TIME_STEP),
                                  !.steps = probe.steps + 1,
                                  !.strength = strength,
                                  !.driven = probe.driven \/ strength # 0]
    /\ UNCHANGED sim_vars

\* retarded_rva(x, t) as update_induced_field calls it, t being the time of
\* the update just made
ProbeRetarded(distance) ==
    /\ ~probe.done
    /\ probe.steps >= 1
    /\ probe' = [probe EXCEPT !.x = FSub(probe.p.x, distance),
                              !.out = retarded_rva(probe.p, FSub(probe.p.x, distance),
                                                   FSub(probe.time, TIME_STEP)),
                              !.done = TRUE]
    /\ UNCHANGED sim_vars

NextParticle ==
    \/ \E e \in FieldStrengths : ParticleStep(e)
    \/ \E d \in ProbeDistances : ProbeRetarded(d)

SpecParticle == InitParticle /\ [][NextParticle]_vars

(***************************************************************************)
(* The Simulation under its controls: between ticks the caller selects the *)
(* waveform, writes mass, spring constant and damping, sets the particle   *)
(* type and resizes the collection.                                        *)
(***************************************************************************)
InitControls ==
    /\ SimulationNew("GaussianPacket")
    /\ probe = NoProbe

NextControls ==
    \/ Update
    \/ \E w \in Waveform : SetWaveform(w)
    \/ \E s \in ParticleSettings : SetParameters(s)
    \/ \E ty \in ChargedParticleType : SetParticleType(ty)
    \/ \E c \in 0 .. MaxCount - 1 : UpdateParticles(c, PARTICLE_SPACING.initial, TRUE)

SpecControls == InitControls /\ [][NextControls]_vars

(***************************************************************************)
(* app.rs: RefractionApp owns the Simulation and redraws it.  The          *)
(* application's own fields are held in probe; the Simulation is the state *)
(* above.  app.rs names the count and spacing of the oscillators           *)
(* electron_count and electron_spacing (particle_count and                 *)
(* particle_spacing in simulation.rs) and calls update_particles           *)
(* update_electrons.  One redraw runs the frame loop, then the widgets     *)
(* with at most one input event, then the resize of the collection.  The   *)
(* inputs drawn are the pause, step, restart and reset buttons and the     *)
(* count, spacing, speed and frame_skip widgets; the waveform, mass,       *)
(* spring constant, damping, opacity and zoom widgets write fields the     *)
(* frame loop and the buttons do not read.                                 *)
(***************************************************************************)
\* a redraw is taken while fewer than MaxFrames frames are counted
MaxFrames == 4
\* and while the simulation has run fewer than MaxAppTicks ticks
MaxAppTicks == 3

\* the Simulation as a value
sim_record ==
    [t |-> t, waveform |-> waveform, applied_field |-> applied_field,
     resultant_field |-> resultant_field, particles |-> particles,
     particle_count |-> particle_count, particle_spacing |-> particle_spacing,
     particle_type |-> particle_type, spring_constant |-> spring_constant,
     particle_mass |-> particle_mass, damping |-> damping]

\* one pass of the loop of Simulation::update: particle i has been updated to q
loop_store(s, i, q) ==
    [s EXCEPT !.particles[i] = q,
              !.resultant_field = add(@, q.field)]

\* the loop of Simulation::update on the Simulation s, from particle i on
RECURSIVE simulation_update_loop(_, _)
simulation_update_loop(s, i) ==
    IF i > Len(s.particles) THEN s
    ELSE simulation_update_loop(
             loop_store(s, i,
                        particle_update(
                            [s.particles[i] EXCEPT !.mass = s.particle_mass,
                                                   !.spring_constant = s.spring_constant,
                                                   !.damping = s.damping],
                            value_at(s.resultant_field, s.particles[i].x),
                            s.t)),
             i + 1)

\* the head of Simulation::update: both fields are set from the waveform
seed_fields(s) ==
    [s EXCEPT !.applied_field = set_from_function(s.waveform, s.t),
              !.resultant_field = set_from_function(s.waveform, s.t)]

\* `self.t += TIME_STEP`
advance_clock(s) == [s EXCEPT !.t = FAdd(@, TIME_STEP)]

\* Simulation::update on the Simulation s
simulation_update(s) == advance_clock(simulation_update_loop(seed_fields(s), 1))

\* the value Simulation::update returns
simulation_update_returns(s) == FALSE

\* Simulation::reset on the Simulation s
simulation_reset(s) ==
    [s EXCEPT !.t = 0,
              !.applied_field = Field_new,
              !.resultant_field = Field_new,
              !.particles = reset_particles(s.particle_count, s.particle_spacing,
                                            s.particle_type)]

\* Simulation::update_particles on the Simulation s: the collections and panic
\* flags it can leave (two where `particles.len() - 1` overflows)
update_particles_outcomes(s, update_all) ==
    LET kept == IF update_all THEN truncate_to_origin(s.particles, s.particle_type)
                ELSE s.particles
    IN  IF s.particle_count = Len(kept)
        THEN {[particles |-> kept, panicked |-> FALSE]}
        ELSE IF Len(kept) = 0
        THEN {[particles |-> kept, panicked |-> TRUE],
              [particles |-> resize_with(kept, s.particle_count, -1,
                                         s.particle_spacing, s.particle_type),
               panicked |-> FALSE]}
        ELSE {[particles |-> resize_with(kept, s.particle_count, Len(kept) - 1,
                                         s.particle_spacing, s.particle_type),
               panicked |-> FALSE]}

\* RefractionApp::new
RefractionApp_new ==
    [paused |-> TRUE, speed |-> One, requested_frames |-> One, frame |-> 1,
     frame_skip |-> SIMULATION_FPS \div 5]

\* the body of the frame loop, where update() left the Simulation u and
\* returned complete
loop_body(st, u, complete) ==
    IF complete
    THEN [app |-> [st.app EXCEPT !.paused = TRUE, !.requested_frames = 0, !.frame = 1],
          sim |-> simulation_reset(u),
          updates |-> st.updates + 1]
    ELSE [app |-> [st.app EXCEPT !.frame = @ + 1],
          sim |-> u,
          updates |-> st.updates + 1]

\* the loop runs while the frame number is at most the requests
RECURSIVE frame_loop_Inclusive(_)
frame_loop_Inclusive(st) ==
    IF ~IsNaN(st.app.requested_frames) /\ AsF32(st.app.frame) <= st.app.requested_frames
    THEN frame_loop_Inclusive(loop_body(st, simulation_update(st.sim),
                                        simulation_update_returns(st.sim)))
    ELSE st

\* `while (self.frame as f32) < self.requested_frames { ... }`
RECURSIVE frame_loop(_)
frame_loop(st) ==
    IF FLt(AsF32(st.app.frame), st.app.requested_frames)
    THEN frame_loop(loop_body(st, simulation_update(st.sim),
                              simulation_update_returns(st.sim)))
    ELSE st

\* the simulation advances whether paused or not
advance_IgnoresPause(st) ==
    frame_loop([st EXCEPT !.app.requested_frames = FAdd(@, st.app.speed)])

\* the head of RefractionApp::update: advance the simulation when not paused
advance(st) ==
    IF ~st.app.paused /\ ((st.app.frame % MONITOR_REFRESH_RATE) \div SIMULATION_FPS = 0)
    THEN frame_loop([st EXCEPT !.app.requested_frames = FAdd(@, st.app.speed)])
    ELSE st

\* `for _ in 0..self.frame_skip { self.simulation.update(); }`
RECURSIVE step_loop(_, _)
step_loop(st, n) ==
    IF n = 0 THEN st
    ELSE step_loop([st EXCEPT !.sim = simulation_update(@),
                              !.updates = @ + 1], n - 1)

\* the values the speed slider is dragged to (0.1 ..= 10.0)
Speeds == {One \div 2, One, (5 * One) \div 2}
\* the values the frame_skip DragValue is dragged to
FrameSkips == {0, 2}
\* the counts the count DragValue is dragged to: range(1..=max_particles())
Counts(s) ==
    {c \in 1 .. MaxCount - 1 :
        c <= IF s.particle_spacing = 0 THEN U32_MAX
             ELSE AsUsize(FFloor(FDiv(FAbs(WORLD_SIZE.min), s.particle_spacing)))}

\* the input events of one redraw
Events ==
    {[kind |-> "none"], [kind |-> "play_pause"], [kind |-> "step"],
     [kind |-> "restart"], [kind |-> "reset_particles"]}
    \cup {[kind |-> "count", c |-> c] : c \in 1 .. MaxCount - 1}
    \cup {[kind |-> "spacing", spacing |-> d] : d \in Spacings}
    \cup {[kind |-> "speed", speed |-> v] : v \in Speeds}
    \cup {[kind |-> "frame_skip", n |-> n] : n \in FrameSkips}

\* a widget that is disabled, or a value outside the widget's range, takes no
\* input
enabled(st, ev) ==
    CASE ev.kind = "step" -> st.app.paused
      [] ev.kind = "restart" -> FLt(0, st.sim.t)
      [] ev.kind = "count" -> ev.c \in Counts(st.sim)
      [] OTHER -> TRUE

\* the widgets of RefractionApp::update under the input event ev
widgets(st, ev) ==
    CASE ev.kind = "count" -> [st EXCEPT !.sim.particle_count = ev.c]
      [] ev.kind = "spacing" -> [st EXCEPT !.sim.particle_spacing = ev.spacing]
      [] ev.kind = "reset_particles" ->
             [st EXCEPT !.sim.particle_count = 1,
                        !.sim.particle_spacing = PARTICLE_SPACING.initial]
      [] ev.kind = "play_pause" -> [st EXCEPT !.app.paused = ~@]
      [] ev.kind = "step" ->
             IF st.app.paused THEN step_loop(st, st.app.frame_skip) ELSE st
      [] ev.kind = "frame_skip" -> [st EXCEPT !.app.frame_skip = ev.n]
      [] ev.kind = "restart" ->
             [st EXCEPT !.app.paused = TRUE,
                        !.app.frame = 0,
                        !.app.requested_frames = 0,
                        !.sim = simulation_reset(@)]
      [] ev.kind = "speed" -> [st EXCEPT !.app.speed = ev.speed]
      [] OTHER -> st

InitApp ==
    /\ SimulationNew("GaussianPacket")
    /\ probe = [app |-> RefractionApp_new, event |-> "none",
                was_paused |-> TRUE, updates |-> 0, loop_updates |-> 0]

\* RefractionApp::update (eframe::App), one redraw with the input event ev
Redraw(ev) ==
    /\ ~panicked
    /\ probe.app.frame < MaxFrames
    /\ t < MaxAppTicks * TIME_STEP
    /\ \E looped \in {advance([app |-> probe.app, sim |-> sim_record, updates |-> 0])} :
           /\ enabled(looped, ev)
           /\ \E drawn \in {widgets(looped, ev)} :
                  LET count_changed ==
                          drawn.sim.particle_count # looped.sim.particle_count
                      spacing_changed ==
                          drawn.sim.particle_spacing # looped.sim.particle_spacing
                  IN  /\ probe' = [app |-> drawn.app, event |-> ev.kind,
                                   was_paused |-> probe.app.paused,
                                   updates |-> drawn.updates,
                                   loop_updates |-> looped.updates]
                      /\ t' = drawn.sim.t
                      /\ waveform' = drawn.sim.waveform
                      /\ applied_field' = drawn.sim.applied_field
                      /\ resultant_field' = drawn.sim.resultant_field
                      /\ particle_count' = drawn.sim.particle_count
                      /\ particle_spacing' = drawn.sim.particle_spacing
                      /\ IF count_changed \/ spacing_changed
                         THEN \E o \in update_particles_outcomes(drawn.sim,
                                                                 spacing_changed) :
                                  particles' = o.particles /\ panicked' = o.panicked
                         ELSE particles' = drawn.sim.particles /\ panicked' = FALSE
    /\ last_call' = [op |-> "redraw", update_all |-> FALSE, prior_len |-> Len(particles),
                     prior_t |-> t, ticks |-> 0]
    /\ e_y' = << >>
    /\ UNCHANGED <<particle_type, spring_constant, particle_mass, damping>>

NextApp == \E ev \in Events : Redraw(ev)

SpecApp == InitApp /\ [][NextApp]_vars

(***************************************************************************)
(* Properties.                                                             *)
(***************************************************************************)
\* the applied field plus the induced fields of particles 1 .. n, summed in order
RECURSIVE Superposition(_)
Superposition(n) ==
    IF n = 0 THEN applied_field
    ELSE [k \in 1 .. DIVISIONS |-> Superposition(n - 1)[k] + particles[n].field[k]]

\* particle i (counted from 1) as a fresh particle at -(i - 1) * spacing
FreshAt(p, i, spacing) ==
    /\ p.x = -((i - 1) * spacing)
    /\ p.y = 0
    /\ p.velocity = 0
    /\ p.acceleration = 0
    /\ p.field = Field_new
    /\ p.history = << >>

\* C1: after update(), the field strength each oscillator was given is the
\* value at its x of the waveform at the tick's time plus the induced fields,
\* as recomputed in this tick, of exactly the oscillators before it in the
\* collection; nothing of itself or of the later ones enters it.
C1_SeesEarlierOscillatorsOnly ==
    last_call.op = "update" =>
        /\ Len(e_y) = Len(particles)
        /\ applied_field = set_from_function(waveform, last_call.prior_t)
        /\ \A i \in 1 .. Len(particles) :
               e_y[i] = value_at(Superposition(i - 1), particles[i].x)

\* C1 witness: a second tick in a row with three oscillators, where the
\* earlier oscillators' fields change what the later ones read and the later
\* ones radiate at the earlier ones' positions
C1_Witness ==
    /\ last_call.op = "update"
    /\ Len(particles) = 3
    /\ \A i \in 1 .. 3 : Len(particles[i].history) = 2
    /\ e_y[2] # value_at(applied_field, particles[2].x)
    /\ e_y[3] # value_at(Superposition(1), particles[3].x)
    /\ e_y[1] # value_at(resultant_field, particles[1].x)
    /\ e_y[2] # value_at(resultant_field, particles[2].x)

\* C2: in every state between calls the resultant field is the applied field
\* plus the induced fields of all oscillators in the collection
C2_ResultantIsSuperposition ==
    \A k \in 1 .. DIVISIONS :
        resultant_field[k] = Superposition(Len(particles))[k]

\* C3: after update_particles the collection holds particle_count oscillators
C3_LenIsParticleCount ==
    last_call.op = "update_particles" => Len(particles) = particle_count

\* C4: update_particles(false) keeps the first min(k, m) oscillators as they
\* are, drops those from m on and appends fresh ones at -j * spacing, j = k..m-1
C4_ResizePreservesPrefix ==
    [][(last_call'.op = "update_particles" /\ ~last_call'.update_all) =>
          /\ Len(particles') = particle_count'
          /\ \A i \in 1 .. Len(particles') :
                 IF i <= Len(particles) THEN particles'[i] = particles[i]
                 ELSE FreshAt(particles'[i], i, particle_spacing')]_vars

\* C5: update_particles(true) keeps the origin oscillator as it is and
\* rebuilds all others fresh, oscillator i at -i * spacing for the new spacing
C5_UpdateAllRebuilds ==
    [][(last_call'.op = "update_particles" /\ last_call'.update_all) =>
          /\ ~panicked'
          /\ Len(particles') = particle_count'
          /\ (Len(particles) >= 1 /\ particle_count' >= 1) =>
                 particles'[1] = particles[1]
          /\ \A i \in 1 .. Len(particles') :
                 /\ particles'[i].x = -((i - 1) * particle_spacing')
                 /\ i >= 2 => FreshAt(particles'[i], i, particle_spacing')]_vars

\* C5 witness: update_particles(true) has rebuilt a collection of three whose
\* oscillators had all moved, at a spacing other than the one they stood at
C5_Witness ==
    /\ last_call.op = "update_particles"
    /\ last_call.update_all
    /\ last_call.prior_len = 3
    /\ last_call.prior_t > 0
    /\ Len(particles) = 3
    /\ particle_spacing = PARTICLE_SPACING.max
    /\ Len(particles[1].history) > 0
    /\ particles[1].velocity # 0

\* C6: after update_particles there are at most max_particles() oscillators
C6_AtMostMaxParticles ==
    last_call.op = "update_particles" => Len(particles) <= max_particles

\* C7: reset() restores t = 0, zero fields and particle_count fresh
\* oscillators, oscillator i at -i * spacing
C7_ResetRestoresFresh ==
    last_call.op = "reset" =>
        /\ t = 0
        /\ applied_field = Field_new
        /\ resultant_field = Field_new
        /\ Len(particles) = particle_count
        /\ \A i \in 1 .. Len(particles) : FreshAt(particles[i], i, particle_spacing)

\* C7 witness: reset() after ticks, on a collection of another size, has laid
\* out three oscillators
C7_Witness ==
    /\ last_call.op = "reset"
    /\ last_call.prior_t >= 2 * TIME_STEP
    /\ last_call.prior_len = 2
    /\ Len(particles) = 3
    /\ particle_spacing = PARTICLE_SPACING.max

\* C8: starting from an empty collection every call completes
C8_ZeroCountTolerated ==
    ~panicked

\* C9: max_particles() is 0 for a spacing of 0 and floor(|min| / spacing)
\* otherwise
C9_MaxParticlesGuardsZero ==
    probe.done =>
        probe.out = IF particle_spacing = 0 THEN 0
                    ELSE Abs(WORLD_SIZE.min) \div particle_spacing

\* the sample at a signed index, 0 outside [0, N)
SampleOrZero(values, i) ==
    IF i >= 0 /\ i < Len(values) THEN values[i + 1] ELSE 0

\* C10: value_at counts a neighbouring index outside [0, N) as 0, below the
\* domain as well as above it
C10_OutOfRangeIsZero ==
    probe.done =>
        LET idx == index_of_flt(probe.x)
            lo == idx \div Scale
            hi == -((-idx) \div Scale)
        IN  probe.out =
                FMul(SampleOrZero(probe.values, lo), One - idx + lo * Scale)
                + FMul(SampleOrZero(probe.values, hi), idx - lo * Scale)

\* a particle as the collection gets it from ChargedParticle::new
IsFresh(p) ==
    /\ p.y = 0
    /\ p.velocity = 0
    /\ p.acceleration = 0
    /\ p.history = << >>

\* C15: update() appends to every oscillator's history exactly one snapshot,
\* stamped with the tick's time and holding the y, v, a the step left; the
\* stamps of a history increase strictly; every other call leaves each
\* oscillator as it was or puts a fresh one in its place.
C15_HistoryAppendOnly ==
    [][/\ last_call'.op = "update" =>
              /\ Len(particles') = Len(particles)
              /\ \A i \in 1 .. Len(particles) :
                     particles'[i].history =
                         Append(particles[i].history,
                                [t |-> t, y |-> particles'[i].y,
                                 v |-> particles'[i].velocity,
                                 a |-> particles'[i].acceleration])
       /\ last_call'.op # "update" =>
              \A i \in 1 .. Len(particles') :
                  \/ i <= Len(particles) /\ particles'[i] = particles[i]
                  \/ IsFresh(particles'[i])
       /\ \A i \in 1 .. Len(particles') :
              \A j \in 1 .. Len(particles'[i].history) - 1 :
                  particles'[i].history[j].t < particles'[i].history[j + 1].t]_vars

\* C15 witness: a second update() has appended to the histories of moving
\* oscillators
C15_Witness ==
    /\ last_call.op = "update"
    /\ Len(particles) >= 2
    /\ \A i \in 1 .. Len(particles) :
           /\ Len(particles[i].history) = 2
           /\ particles[i].history[1].v # particles[i].history[2].v

\* C16: every update() advances t by TIME_STEP and returns false, so t is
\* TIME_STEP times the number of updates since new() or reset(), whatever
\* update_particles calls came between
C16_TimeIsTicksTimesStep ==
    /\ t = last_call.ticks * TIME_STEP
    /\ last_call.op = "update" => ~last_call.returned

\* C16 witness: two updates with a resize between them
C16_Witness ==
    /\ last_call.op = "update"
    /\ last_call.ticks = 2
    /\ Len(particles) = 3
    /\ Len(particles[1].history) = 2
    /\ Len(particles[3].history) = 1

\* the time of the update a retarded lookup was made in
ProbeNow == FSub(probe.time, TIME_STEP)
\* the retarded time of the position queried
ProbePastT ==
    LET d == Abs(probe.x - probe.p.x)
    IN  IF ProbeNow - d < 0 THEN 0 ELSE ProbeNow - d

\* the linear interpolation of two snapshots at time past_t
Interpolated(t1, t2, past_t) ==
    LET f == FDiv(past_t - t1.t, t2.t - t1.t)
    IN  [t |-> past_t,
         y |-> FAdd(FMul(t1.y, One - f), FMul(t2.y, f)),
         v |-> FAdd(FMul(t1.v, One - f), FMul(t2.v, f)),
         a |-> FAdd(FMul(t1.a, One - f), FMul(t2.a, f))]

\* C11: with two or more snapshots recorded, the retarded lookup returns the
\* interpolation of two adjacent snapshots that bracket the retarded time,
\* as a scan of the history for the bracketing pair would
C11_LookupAgreesWithScan ==
    (probe.done /\ Len(probe.p.history) >= 2) =>
        \E j \in 1 .. Len(probe.p.history) - 1 :
            /\ probe.p.history[j].t <= ProbePastT
            /\ ProbePastT <= probe.p.history[j + 1].t
            /\ probe.out = Interpolated(probe.p.history[j], probe.p.history[j + 1],
                                        ProbePastT)

\* C12: a retarded time equal to a recorded timestamp returns that snapshot's
\* y, v, a as recorded
C12_ExactAtRecordedTimes ==
    probe.done =>
        \A j \in 1 .. Len(probe.p.history) :
            probe.p.history[j].t = ProbePastT =>
                /\ probe.out.y = probe.p.history[j].y
                /\ probe.out.v = probe.p.history[j].v
                /\ probe.out.a = probe.p.history[j].a

\* C13: every sample of the induced field is a defined value
C13_InducedFieldDefined ==
    \A k \in 1 .. DIVISIONS : ~IsNaN(probe.p.field[k])

\* C14: with fewer than two snapshots recorded the retarded lookup returns
\* the current y, v, a, whatever the distance to the position
C14_BootstrapReturnsNow ==
    (probe.done /\ Len(probe.p.history) < 2) =>
        probe.out = [t |-> ProbeNow, y |-> probe.p.y, v |-> probe.p.velocity,
                     a |-> probe.p.acceleration]

\* C14 witness: a moving particle with one snapshot is looked up from a
\* distance
C14_Witness ==
    /\ probe.done
    /\ Len(probe.p.history) = 1
    /\ probe.x # probe.p.x
    /\ ProbePastT # ProbeNow
    /\ probe.p.velocity # 0
    /\ probe.out.v = probe.p.velocity

\* C19: one step computes the acceleration from the y and velocity before
\* the step, adds dt * acceleration to the velocity, then adds dt times the
\* new velocity to y; from rest with mass 0.5, no spring, no damping, charge 1
\* and field strength 1 the velocity becomes 2 dt
C19_SemiImplicitEuler ==
    [][(probe'.steps = probe.steps + 1) =>
          LET p == probe.p
              q == probe'.p
              s == probe.settings
              charge == retrieve_properties(p.particle_type).charge
              force == FMul(charge, probe'.strength) - FMul(s.spring_constant, p.y)
                           - FMul(s.damping, p.velocity)
          IN  /\ q.acceleration = FDiv(force, s.mass)
              /\ q.velocity = p.velocity + FMul(TIME_STEP, q.acceleration)
              /\ q.y = p.y + FMul(TIME_STEP, q.velocity)
              /\ (/\ 2 * s.mass = One /\ s.spring_constant = 0 /\ s.damping = 0
                  /\ charge = One /\ probe'.strength = One
                  /\ p.y = 0 /\ p.velocity = 0) => q.velocity = 2 * TIME_STEP]_vars

\* C19 witness: a sprung particle has moved off the axis, by the velocity
\* the step itself set
C19_Witness ==
    /\ ~probe.done
    /\ probe.steps >= 2
    /\ probe.settings.spring_constant # 0
    /\ probe.p.velocity # 0
    /\ probe.p.y # 0
    /\ Len(probe.p.history) = probe.steps
    /\ probe.p.history[probe.steps - 1].y = 0

\* C20: a particle that starts at rest and is given field strength 0 on
\* every tick keeps y, velocity and acceleration 0 and an all-zero field
C20_RestState ==
    ~probe.driven =>
        /\ probe.p.y = 0
        /\ probe.p.velocity = 0
        /\ probe.p.acceleration = 0
        /\ probe.p.field = Field_new

\* C17: value_at at a sample position is that sample, and between two
\* adjacent sample positions it is the two samples weighted linearly by the
\* distances to them
C17_InterpolationExact ==
    probe.done =>
        \A i \in 0 .. DIVISIONS - 1 :
            /\ probe.x = position_at(i) => probe.out = probe.values[i + 1]
            /\ (i < DIVISIONS - 1 /\ position_at(i) < probe.x
                   /\ probe.x < position_at(i + 1)) =>
                   probe.out * STEP =
                       probe.values[i + 1] * (position_at(i + 1) - probe.x)
                       + probe.values[i + 2] * (probe.x - position_at(i))

\* C17 witness: a query halfway between two samples that differ
C17_Witness ==
    /\ probe.done
    /\ \E i \in 0 .. DIVISIONS - 2 :
           /\ position_at(i) < probe.x
           /\ probe.x < position_at(i + 1)
           /\ probe.values[i + 1] = One
           /\ probe.values[i + 2] = AsF32(2)
           /\ 2 * probe.out = AsF32(3)

\* C18: a.add(b) leaves in a the sum, sample by sample, of the old a and b,
\* and leaves b as it was
C18_AddIsSuperposition ==
    probe.done =>
        /\ \A i \in 1 .. DIVISIONS : probe.a[i] = probe.a0[i] + probe.b[i]
        /\ probe.b = probe.b0
        /\ Len(probe.a) = DIVISIONS

\* C18 witness: two fields with non-zero samples have been added
C18_Witness ==
    /\ probe.done
    /\ \A i \in 1 .. DIVISIONS : probe.a0[i] # 0
    /\ probe.a[1] = 0
    /\ probe.a[DIVISIONS] = AsF32(3) + 1

\* C21: after update_induced_field every sample nearer to the oscillator than
\* one grid spacing is 0, whatever the retarded acceleration is
C21_NearFieldIsZero ==
    probe.steps >= 1 =>
        \A k \in 1 .. DIVISIONS :
            Abs(probe.p.x - position_at(k - 1)) < STEP => probe.p.field[k] = 0

\* C21 witness: an accelerated oscillator radiates, undefined values
\* included, at the samples a grid spacing or more away and has samples
\* nearer than that
C21_Witness ==
    /\ probe.steps >= 2
    /\ probe.p.acceleration # 0
    /\ \E k \in 1 .. DIVISIONS : Abs(probe.p.x - position_at(k - 1)) < STEP
    /\ \E k \in 1 .. DIVISIONS : IsNaN(probe.p.field[k])
    /\ \E k \in 1 .. DIVISIONS : ~IsNaN(probe.p.field[k]) /\ probe.p.field[k] # 0

C22_ParametersHotSwappable ==
    [][last_call'.op = "update" =>
          /\ Len(particles') = Len(particles)
          /\ \A i \in 1 .. Len(particles) :
                 LET p == particles[i]
                     q == particles'[i]
                     charge == retrieve_properties(p.particle_type).charge
                     force == FMul(charge, e_y'[i]) - FMul(spring_constant, p.y)
                                  - FMul(damping, p.velocity)
                 IN  /\ q.mass = particle_mass
                     /\ q.spring_constant = spring_constant
                     /\ q.damping = damping
                     /\ q.acceleration = FDiv(force, particle_mass)
                     /\ q.velocity = p.velocity + FMul(TIME_STEP, q.acceleration)]_vars

\* C22 witness: a moving oscillator created with a proton's defaults and
\* stepped before has stepped with other values, written since
C22_Witness ==
    /\ last_call.op = "update"
    /\ Len(particles) >= 1
    /\ particles[1].particle_type = "Proton"
    /\ Len(particles[1].history) = 2
    /\ particles[1].velocity # 0
    /\ last_call.held[1].mass # particle_mass
    /\ last_call.held[1].damping # damping
    /\ last_call.held[1].mass # retrieve_properties("Proton").mass
    /\ particle_mass # retrieve_properties("Proton").mass

\* C26: set_particle_type(p) sets the type to p and mass, spring constant
\* and damping to p's defaults and resets: t = 0, zero fields,
\* particle_count fresh oscillators of type p; count, spacing and waveform
\* stay as they were
C26_SetParticleTypeResets ==
    [][last_call'.op = "set_particle_type" =>
          LET ty == last_call'.ptype
          IN  /\ particle_type' = ty
              /\ particle_mass' = retrieve_properties(ty).mass
              /\ spring_constant' = retrieve_properties(ty).default_spring_constant
              /\ damping' = retrieve_properties(ty).default_damping
              /\ t' = 0
              /\ applied_field' = Field_new
              /\ resultant_field' = Field_new
              /\ Len(particles') = particle_count
              /\ \A i \in 1 .. Len(particles') :
                     /\ particles'[i].particle_type = ty
                     /\ FreshAt(particles'[i], i, particle_spacing)
              /\ particle_count' = particle_count
              /\ particle_spacing' = particle_spacing
              /\ waveform' = waveform]_vars

\* C26 witness: the type has been set to proton on a simulation of two
\* electrons that had run
C26_Witness ==
    /\ last_call.op = "set_particle_type"
    /\ last_call.ptype = "Proton"
    /\ last_call.prior_t > 0
    /\ last_call.prior_len = 2
    /\ Len(particles) = 2
    /\ waveform = "PlaneWave"
    /\ particle_mass = AsF32(1836)

\* C27: after update() the applied field is the selected waveform sampled at
\* the time before the tick's advance, and with no oscillators the resultant
\* field equals it
C27_AppliedFieldIsWaveform ==
    last_call.op = "update" =>
        /\ \A k \in 1 .. DIVISIONS :
               applied_field[k] =
                   WaveformFunction(waveform, position_at(k - 1), t - TIME_STEP)
        /\ Len(particles) = 0 => resultant_field = applied_field

\* C27 witness: a second tick, with no oscillators and a waveform selected
\* since construction
C27_Witness ==
    /\ last_call.op = "update"
    /\ last_call.ticks = 2
    /\ Len(particles) = 0
    /\ waveform = "PlaneWave"
    /\ applied_field # set_from_function("GaussianPacket", t - TIME_STEP)
    /\ applied_field # set_from_function("PlaneWave", t)
    /\ resultant_field # Field_new

\* C24: the frame counter satisfies requested_frames <= frame <
\* requested_frames + 1 initially, after a restart and after every redraw, in
\* particular after every redraw that found the simulation not paused
C24_FramePacing ==
    /\ probe.app.requested_frames <= AsF32(probe.app.frame)
    /\ AsF32(probe.app.frame) < probe.app.requested_frames + One

\* C24 witness: a redraw that found the simulation running made three
\* updates for a fractional number of requested frames
C24_Witness ==
    /\ last_call.op = "redraw"
    /\ ~probe.was_paused
    /\ probe.loop_updates = 3
    /\ probe.app.requested_frames % One # 0
    /\ probe.app.frame > 1

\* C25: a redraw that finds the application paused makes no update in the
\* frame loop; it makes frame_skip updates, advancing the time by frame_skip
\* * TIME_STEP, when the step button is clicked and leaves the time alone
\* otherwise, but for a restart; a restart click leaves paused = true,
\* frame = 0, requested_frames = 0 and the simulation reset at t = 0
C25_PausedOnlySteps ==
    [][last_call'.op = "redraw" =>
          LET a == probe.app
              ev == probe'.event
          IN  /\ a.paused =>
                     /\ probe'.loop_updates = 0
                     /\ probe'.updates = IF ev = "step" THEN a.frame_skip ELSE 0
                     /\ ev = "step" => t' = t + a.frame_skip * TIME_STEP
                     /\ ev \notin {"step", "restart"} => t' = t
                     /\ ev # "restart" =>
                            /\ probe'.app.frame = a.frame
                            /\ probe'.app.requested_frames = a.requested_frames
              /\ ev = "restart" =>
                     /\ probe'.app.paused
                     /\ probe'.app.frame = 0
                     /\ probe'.app.requested_frames = 0
                     /\ t' = 0
                     /\ applied_field' = Field_new
                     /\ resultant_field' = Field_new
                     /\ Len(particles') = particle_count
                     /\ \A i \in 1 .. Len(particles') :
                            FreshAt(particles'[i], i, particle_spacing)]_vars

\* C25 witness: paused again after running, the step button has advanced
\* the simulation by a frame_skip of two updates
C25_Witness ==
    /\ last_call.op = "redraw"
    /\ probe.was_paused
    /\ probe.event = "step"
    /\ probe.updates = 2
    /\ probe.app.frame > 1
    /\ t = last_call.prior_t + 2 * TIME_STEP
    /\ last_call.prior_t > 0

====
